---- MODULE Spec2Model ----
(***************************************************************************)
(* Model of capture-booking-data-api: the POST /api/ask handler            *)
(* (src/src/app/api/ask/route.ts), the GET /api/docs handler, the docs     *)
(* viewer page and the runner of the testing utility (src/test-api.js).    *)
(*                                                                         *)
(* Texts (the `questions` form field, the upstream reply) are sequences of *)
(* lexemes: every lexeme stands for the characters it spells.  JavaScript  *)
(* values are records [k, s, items]: k is the type tag, s the content of a *)
(* string (a sequence of lexemes), items the elements of an array.         *)
(***************************************************************************)
EXTENDS Integers, Sequences, FiniteSets, TLC

\* ------------------------------------------------------------------ bounds
MaxReplyLen == 4
MaxQuestions == 2
MaxConcurrent == 2
MaxItems == 2
MaxLoads == 3

\* ------------------------------------------------------- JavaScript values
Str(s) == [k |-> "string", s |-> s, items |-> <<>>]
Null == [k |-> "null", s |-> <<>>, items |-> <<>>]
Obj == [k |-> "object", s |-> <<>>, items |-> <<>>]
Arr(items) == [k |-> "array", s |-> <<>>, items |-> items]
\* a number and a boolean, by their JSON spelling
Num(n) == [k |-> "number", s |-> <<n>>, items |-> <<>>]
Bool(b) == [k |-> "boolean", s |-> <<b>>, items |-> <<>>]

EmptyString == Str(<<>>)

\* `v || ''` takes the right operand exactly when v is falsy
Truthy(v) ==
  ~(v.k = "null" \/ (v.k = "string" /\ v.s = <<>>) \/ v = Num("0") \/ v = Bool("false"))

\* variant: `v ?? ''` replaces null only
OrEmptyNullish(v) == IF v.k = "null" THEN EmptyString ELSE v

OrEmpty(v) == IF Truthy(v) THEN v ELSE EmptyString

\* ---------------------------------------------------------------- lexemes
LB == "["
RB == "]"
COMMA == ","
NL == "\n"
SP == " "
STR_A == "\"a\""
STR_B == "\"b\""
LIT_NULL == "null"
LIT_OBJ == "{}"
WORD == "x"
STR_EMPTY == "\"\""
LIT_ZERO == "0"
LIT_SEVEN == "7"
LIT_FALSE == "false"

\* lexemes an upstream reply is made of
ReplyLexemes == {LB, RB, COMMA, NL, SP, STR_A, LIT_NULL, WORD}

IsWs(c) == c \in {SP, NL}

IsAtom(c) ==
  c \in {STR_A, STR_B, LIT_NULL, LIT_OBJ, STR_EMPTY, LIT_ZERO, LIT_SEVEN, LIT_FALSE}

AtomValue(c) ==
  CASE c = STR_A -> Str(<<"a">>)
    [] c = STR_B -> Str(<<"b">>)
    [] c = LIT_NULL -> Null
    [] c = STR_EMPTY -> EmptyString
    [] c = LIT_ZERO -> Num("0")
    [] c = LIT_SEVEN -> Num("7")
    [] c = LIT_FALSE -> Bool("false")
    [] OTHER -> Obj

\* ------------------------------------------------------------- JSON.parse
RECURSIVE SkipWs(_, _)
SkipWs(s, i) == IF i <= Len(s) /\ IsWs(s[i]) THEN SkipWs(s, i + 1) ELSE i

Fail == [ok |-> FALSE, val |-> Null, pos |-> 0]

RECURSIVE ParseValue(_, _)
RECURSIVE ParseItems(_, _, _)
\* one JSON value starting at or after position i; pos is the position
\* after the value
ParseValue(s, i) ==
  LET j == SkipWs(s, i) IN
  IF j > Len(s) THEN Fail
  ELSE IF IsAtom(s[j]) THEN [ok |-> TRUE, val |-> AtomValue(s[j]), pos |-> j + 1]
  ELSE IF s[j] = LB THEN
    LET j2 == SkipWs(s, j + 1) IN
    IF j2 <= Len(s) /\ s[j2] = RB
      THEN [ok |-> TRUE, val |-> Arr(<<>>), pos |-> j2 + 1]
      ELSE ParseItems(s, j + 1, <<>>)
  ELSE Fail

\* what follows the element r of an array: ',' and the next element, or ']'
ParseItemsAfter(s, r, acc) ==
  IF ~r.ok THEN Fail
  ELSE
    LET j == SkipWs(s, r.pos)
        acc2 == Append(acc, r.val) IN
    IF j > Len(s) THEN Fail
    ELSE IF s[j] = COMMA THEN ParseItems(s, j + 1, acc2)
    ELSE IF s[j] = RB THEN [ok |-> TRUE, val |-> Arr(acc2), pos |-> j + 1]
    ELSE Fail

\* the elements of an array, after '[' or ',', up to the closing ']'
\* (the element and the elements before it are computed once, then used)
ParseItems(s, i, acc) ==
  CHOOSE x \in {ParseItemsAfter(s, a[1], a[2]) : a \in {<<ParseValue(s, i), acc>>}} : TRUE

\* the value of a text that is one JSON value and nothing else
ParseWhole(s, r) ==
  IF r.ok /\ SkipWs(s, r.pos) = Len(s) + 1 THEN [ok |-> TRUE, val |-> r.val]
  ELSE [ok |-> FALSE, val |-> Null]

\* JSON.parse(text): ok = FALSE when it throws a SyntaxError
JSONParse(s) ==
  CHOOSE x \in {ParseWhole(t, ParseValue(t, 1)) : t \in {s}} : TRUE

\* JSON.stringify of an array of the strings "a" and "b" (no indentation)
StringLexeme(v) == IF v = Str(<<"a">>) THEN STR_A ELSE STR_B

RECURSIVE StringifyItems(_, _)
StringifyItems(q, i) ==
  IF i > Len(q) THEN <<>>
  ELSE (IF i > 1 THEN <<COMMA>> ELSE <<>>) \o <<StringLexeme(q[i])>> \o StringifyItems(q, i + 1)

JSONStringify(q) == <<LB>> \o StringifyItems(q, 1) \o <<RB>>

\* ---------------------------------------------- responseText.match(/\[[\s\S]*\]/)
Positions(s, c) == {i \in 1..Len(s) : s[i] = c}

Max(S) == CHOOSE x \in S : \A y \in S : y <= x

Min(S) == CHOOSE x \in S : \A y \in S : x <= y

\* the regular expression matches from the first '[' to the last ']'
HasMatch(s) ==
  /\ Positions(s, LB) # {}
  /\ Positions(s, RB) # {}
  /\ Min(Positions(s, LB)) < Max(Positions(s, RB))

JsonMatch(s) == SubSeq(s, Min(Positions(s, LB)), Max(Positions(s, RB)))

\* ------------------------------ responseText.split('\n').filter(non-blank)
RECURSIVE SplitLines(_, _, _)
SplitLines(s, i, cur) ==
  IF i > Len(s) THEN <<cur>>
  ELSE IF s[i] = NL THEN <<cur>> \o SplitLines(s, i + 1, <<>>)
  ELSE SplitLines(s, i + 1, Append(cur, s[i]))

\* variant: the line is not trimmed
NonBlankNoTrim(line) == Len(line) > 0

\* line.trim().length > 0
NonBlank(line) == \E i \in 1..Len(line) : ~IsWs(line[i])

NonBlankLines(s) == SelectSeq(SplitLines(s, 1, <<>>), NonBlank)

RECURSIVE AsStrings(_)
AsStrings(lines) ==
  IF lines = <<>> THEN <<>> ELSE <<Str(Head(lines))>> \o AsStrings(Tail(lines))

\* ------------------------------------------------ answers from the reply
\* the try/catch around the extraction: the array parsed from the matched
\* span, the non-blank lines when nothing matches, the whole reply when the
\* matched span does not parse
ParseThrows(text) == HasMatch(text) /\ ~JSONParse(JsonMatch(text)).ok

\* variant: a matched span that does not parse falls back to the lines
ExtractAnswersLinesOnError(text) ==
  IF HasMatch(text) /\ JSONParse(JsonMatch(text)).ok
    THEN JSONParse(JsonMatch(text)).val.items
    ELSE AsStrings(NonBlankLines(text))

\* variant: a reply without a bracketed span is taken whole
ExtractAnswersWhole(text) ==
  IF HasMatch(text) THEN
    IF JSONParse(JsonMatch(text)).ok
      THEN JSONParse(JsonMatch(text)).val.items
      ELSE <<Str(text)>>
  ELSE <<Str(text)>>

ExtractAnswers(text) ==
  IF HasMatch(text) THEN
    IF JSONParse(JsonMatch(text)).ok
      THEN JSONParse(JsonMatch(text)).val.items
      ELSE <<Str(text)>>
  ELSE AsStrings(NonBlankLines(text))

\* while (answers.length < n) answers.push(''); answers.slice(0, n)
RECURSIVE Pad(_, _)
Pad(answers, n) == IF Len(answers) < n THEN Pad(Append(answers, EmptyString), n) ELSE answers

\* variant: slice(-n) keeps the last n items
PadTruncateTail(answers, n) ==
  LET p == Pad(answers, n) IN SubSeq(p, Len(p) - n + 1, Len(p))

PadTruncate(answers, n) == SubSeq(Pad(answers, n), 1, n)

\* variant: every entry carries the first question
ZipResultsFirst(questions, answers) ==
  [i \in 1..Len(questions) |-> [question |-> questions[1], answer |-> OrEmpty(answers[i])]]

\* questions.map((question, index) => ({question, answer: answers[index] || ''}))
ZipResults(questions, answers) ==
  [i \in 1..Len(questions) |-> [question |-> questions[i], answer |-> OrEmpty(answers[i])]]

\* variant: the results are mapped over the extracted answers
BuildResultsOverAnswers(questions, text) ==
  LET a == ExtractAnswers(text) IN
  [i \in 1..Len(a) |->
     [question |-> IF i <= Len(questions) THEN questions[i] ELSE Null, answer |-> OrEmpty(a[i])]]

BuildResults(questions, text) ==
  ZipResults(questions, PadTruncate(ExtractAnswers(text), Len(questions)))

\* ---------------------------------------------------------- the request
\* a multipart form field: absent, a text value or an uploaded file
Absent == [kind |-> "absent", text |-> <<>>, type |-> ""]
TextField(t) == [kind |-> "text", text |-> t, type |-> ""]
FileField(mime) == [kind |-> "file", text |-> <<>>, type |-> mime]

\* formData.get(name) is null for an absent field; !v is true for null and ''
Falsy(field) == field.kind = "absent" \/ (field.kind = "text" /\ field.text = <<>>)

\* questionsRaw.toString()
ObjectFile == <<LB, "object", SP, "File", RB>>

FieldToString(field) == IF field.kind = "file" THEN ObjectFile ELSE field.text

QuestionValues == {Str(<<"a">>), Str(<<"b">>)}

\* the arrays of question strings a client submits
QuestionArrays == UNION {[1..n -> QuestionValues] : n \in 0..MaxQuestions}

FileFields ==
  {Absent, TextField(<<>>), TextField(<<WORD>>), FileField("image/png"), FileField("application/pdf"),
   FileField("")}

\* `questions` fields that are not the JSON text of an array
BadQuestionFields ==
  {Absent, TextField(<<>>), TextField(<<WORD>>), TextField(<<LIT_NULL>>), TextField(<<LIT_OBJ>>),
   TextField(<<STR_A>>), TextField(<<LB, STR_A>>), FileField("text/plain")}

NoArray == <<Null>>

\* bodyOk: the body parses as multipart form data; submitted: the array the
\* client serialised into the `questions` field (NoArray when it sent
\* something else)
Requests ==
  {[bodyOk |-> TRUE, file |-> f, questions |-> TextField(JSONStringify(q)), submitted |-> q] :
     f \in FileFields, q \in QuestionArrays}
  \cup {[bodyOk |-> TRUE, file |-> f, questions |-> b, submitted |-> NoArray] :
     f \in FileFields, b \in BadQuestionFields}
  \cup {[bodyOk |-> FALSE, file |-> Absent, questions |-> Absent, submitted |-> NoArray]}

\* -------------------------------------------------------------- exceptions
\* a thrown value: an Error with a message, or any other value, of which
\* String(value) is str
ErrorOf(m) == [isError |-> TRUE, message |-> m, str |-> "Error: " \o m]
Thrown(v) == [isError |-> FALSE, message |-> "", str |-> v]

FormDataError == ErrorOf("Failed to parse body as FormData.")
ArrayBufferError == ErrorOf("file.arrayBuffer is not a function")
SyntaxError == ErrorOf("Unexpected token in JSON")
NotArrayError == ErrorOf("Questions must be an array")

UpstreamErrors == {ErrorOf("API key not valid"), ErrorOf("fetch failed"), Thrown("quota exceeded")}

\* error instanceof Error ? error.message : String(error)
MessageOf(e) == IF e.isError THEN e.message ELSE e.str

\* --------------------------------------------------------------- responses
Cors == "*"

NoResponse == [status |-> 0, kind |-> "none", error |-> "", results |-> <<>>, allowOrigin |-> ""]

\* variant: the status option is left out, so the response is a 200
ErrorResponseNoStatus(status, message) ==
  [status |-> 200, kind |-> "error", error |-> message, results |-> <<>>, allowOrigin |-> Cors]

ErrorResponse(status, message) ==
  [status |-> status, kind |-> "error", error |-> message, results |-> <<>>, allowOrigin |-> Cors]

ResultsResponse(results) ==
  [status |-> 200, kind |-> "results", error |-> "", results |-> results, allowOrigin |-> Cors]

\* variant: the catch block answers with a fixed text
CatchAllGeneric(e) == ErrorResponse(500, "Internal server error")

\* variant: the catch block sets no headers
CatchAllNoCors(e) ==
  [status |-> 500, kind |-> "error", error |-> MessageOf(e), results |-> <<>>, allowOrigin |-> ""]

\* the outer catch block
CatchAll(e) == ErrorResponse(500, MessageOf(e))

\* ------------------------------------------------------------ upstream
NoReply == [defined |-> FALSE, text |-> <<>>]
Reply(t) == [defined |-> TRUE, text |-> t]

ReplyTexts == UNION {[1..n -> ReplyLexemes] : n \in 0..MaxReplyLen}

\* response.text ?? ''
ResponseText(r) == IF r.defined THEN r.text ELSE <<>>

\* file.type || 'image/png'
MimeType(file) == IF file.type = "" THEN "image/png" ELSE file.type

\* ------------------------------------------------------------------ state
VARIABLES
  request,        \* the request being handled
  pc,             \* "start", "encode", "awaiting", "done"
  questions,      \* the parsed questions array (its elements)
  upstreamCalls,  \* number of generateContent calls made
  upstreamMime,   \* mimeType of the inline data sent upstream
  reply,          \* what generateContent resolved with
  raised,         \* the exceptions raised in the handler, in order
  response,       \* the response returned
  docs,           \* a GET /api/docs request and the file system it reads
  conc,           \* POST /api/ask requests being handled concurrently
  page,           \* the docs viewer page and the fetches it started
  runner          \* a run of runAllTests of the testing utility

vars ==
  <<request, pc, questions, upstreamCalls, upstreamMime, reply, raised, response, docs, conc,
    page, runner>>

\* the state of the other handlers, which POST /api/ask never touches
others == <<docs, conc, page, runner>>

\* no GET /api/docs request, no concurrent requests, no page open, no
\* test run
DocsIdle == [pc |-> "idle"]
ConcIdle == [pc |-> "idle"]
PageIdle == [pc |-> "idle"]
RunnerIdle == [pc |-> "idle"]

Init ==
  /\ request \in Requests
  /\ pc = "start"
  /\ questions = <<>>
  /\ upstreamCalls = 0
  /\ upstreamMime = ""
  /\ reply = NoReply
  /\ raised = <<>>
  /\ response = NoResponse
  /\ docs = DocsIdle
  /\ conc = ConcIdle
  /\ page = PageIdle
  /\ runner = RunnerIdle

Respond(r) == response' = r /\ pc' = "done"

\* await req.formData() rejects: the body is not multipart form data
FormDataRejects ==
  /\ pc = "start"
  /\ ~request.bodyOk
  /\ raised' = Append(raised, [at |-> "formData", exc |-> FormDataError])
  /\ Respond(CatchAll(FormDataError))
  /\ UNCHANGED others
  /\ UNCHANGED <<request, questions, upstreamCalls, upstreamMime, reply>>

\* the value JSON.parse gives for the `questions` field, and the exception
\* of the inner try block
ParsedQuestions(field) == JSONParse(FieldToString(field))

QuestionsError(field) ==
  IF ~ParsedQuestions(field).ok THEN SyntaxError ELSE NotArrayError

\* variant: the Array.isArray check is left out
QuestionsValidAnyJson(field) == ParsedQuestions(field).ok

QuestionsValid(field) ==
  ParsedQuestions(field).ok /\ ParsedQuestions(field).val.k = "array"

\* variant: an empty questions array counts as missing questions
MissingInputOrEmpty(req) ==
  Falsy(req.file) \/ Falsy(req.questions) \/ FieldToString(req.questions) = <<LB, RB>>

\* variant: only the questions field is checked
MissingInputQuestionsOnly(req) == Falsy(req.questions)

\* !file || !questionsRaw
MissingInput(req) == Falsy(req.file) \/ Falsy(req.questions)

\* the form data is read and validated, up to the await of file.arrayBuffer()
Validate ==
  /\ pc = "start"
  /\ request.bodyOk
  /\ IF MissingInput(request) THEN
       /\ Respond(ErrorResponse(400, "Missing file or questions"))
       /\ UNCHANGED <<questions, raised>>
     ELSE IF ~QuestionsValid(request.questions) THEN
       /\ raised' = Append(raised, [at |-> "questions", exc |-> QuestionsError(request.questions)])
       /\ Respond(ErrorResponse(400, "Invalid JSON format for questions parameter"))
       /\ UNCHANGED questions
     ELSE IF request.file.kind # "file" THEN
       /\ raised' = Append(raised, [at |-> "arrayBuffer", exc |-> ArrayBufferError])
       /\ questions' = ParsedQuestions(request.questions).val.items
       /\ Respond(CatchAll(ArrayBufferError))
     ELSE
       /\ questions' = ParsedQuestions(request.questions).val.items
       /\ pc' = "encode"
       /\ UNCHANGED <<raised, response>>
  /\ UNCHANGED others
  /\ UNCHANGED <<request, upstreamCalls, upstreamMime, reply>>

\* variant: generateContent is also called before the form is validated
CallUpstreamEarly ==
  /\ \/ pc = "encode" /\ pc' = "awaiting"
     \/ pc = "start" /\ upstreamCalls = 0 /\ pc' = pc
  /\ upstreamCalls' = upstreamCalls + 1
  /\ upstreamMime' = MimeType(request.file)
  /\ UNCHANGED others
  /\ UNCHANGED <<request, questions, reply, raised, response>>

\* the image is encoded, the prompt built and generateContent called
CallUpstream ==
  /\ pc = "encode"
  /\ upstreamCalls' = upstreamCalls + 1
  /\ upstreamMime' = MimeType(request.file)
  /\ pc' = "awaiting"
  /\ UNCHANGED others
  /\ UNCHANGED <<request, questions, reply, raised, response>>

\* variant: a reply whose bracketed span does not parse reaches the outer catch
AnswersResponseNoCatch(qs, text) ==
  IF ParseThrows(text) THEN CatchAll(SyntaxError) ELSE ResultsResponse(BuildResults(qs, text))

\* the response built from the reply text: the inner try/catch never lets
\* the parse error out
AnswersResponse(qs, text) == ResultsResponse(BuildResults(qs, text))

\* variant: the padding loop never ends when answers are missing
UpstreamReturnsSpin(replies) ==
  /\ pc = "awaiting"
  /\ \E r \in replies :
       /\ reply' = r
       /\ raised' = IF ParseThrows(ResponseText(r))
                      THEN Append(raised, [at |-> "answers", exc |-> SyntaxError])
                      ELSE raised
       /\ IF Len(ExtractAnswers(ResponseText(r))) < Len(questions)
            THEN pc' = "padding" /\ UNCHANGED response
            ELSE Respond(AnswersResponse(questions, ResponseText(r)))
  /\ UNCHANGED others
  /\ UNCHANGED <<request, questions, upstreamCalls, upstreamMime>>

\* generateContent resolves with one of the given replies: the answers are
\* extracted and the results returned
UpstreamReturnsFrom(replies) ==
  /\ pc = "awaiting"
  /\ \E r \in replies :
       /\ reply' = r
       /\ raised' = IF ParseThrows(ResponseText(r))
                      THEN Append(raised, [at |-> "answers", exc |-> SyntaxError])
                      ELSE raised
       /\ Respond(AnswersResponse(questions, ResponseText(r)))
  /\ UNCHANGED others
  /\ UNCHANGED <<request, questions, upstreamCalls, upstreamMime>>

\* everything generateContent can resolve with
Replies == {NoReply} \cup {Reply(t) : t \in ReplyTexts}

UpstreamReturns == UpstreamReturnsFrom(Replies)

\* replies of every shape: no text, blank, lines, arrays shorter and longer
\* than the questions, text around an array, spans that do not parse
LiveReplies ==
  {NoReply, Reply(<<>>), Reply(<<SP, NL>>), Reply(<<WORD>>), Reply(<<WORD, NL, STR_A>>),
   Reply(<<WORD, NL, WORD, NL, WORD, NL, WORD>>), Reply(<<LB, RB>>), Reply(<<LB, STR_A, RB>>),
   Reply(<<LB, STR_A, COMMA, LIT_NULL, COMMA, STR_A, COMMA, STR_A, RB>>),
   Reply(<<WORD, LB, LB, RB, RB, WORD>>), Reply(<<LB, WORD, RB>>), Reply(<<LB, STR_A, RB, RB>>)}

UpstreamReturnsLive == UpstreamReturnsFrom(LiveReplies)

\* variant: a failed call is retried
UpstreamThrowsRetry ==
  /\ pc = "awaiting"
  /\ \E e \in UpstreamErrors :
       /\ raised' = Append(raised, [at |-> "upstream", exc |-> e])
       /\ IF upstreamCalls < 3
            THEN pc' = "encode" /\ UNCHANGED response
            ELSE Respond(CatchAll(e))
  /\ UNCHANGED others
  /\ UNCHANGED <<request, questions, upstreamCalls, upstreamMime, reply>>

\* generateContent rejects
UpstreamThrows ==
  /\ pc = "awaiting"
  /\ \E e \in UpstreamErrors :
       /\ raised' = Append(raised, [at |-> "upstream", exc |-> e])
       /\ Respond(CatchAll(e))
  /\ UNCHANGED others
  /\ UNCHANGED <<request, questions, upstreamCalls, upstreamMime, reply>>

Next ==
  \/ FormDataRejects
  \/ Validate
  \/ CallUpstream
  \/ UpstreamReturns
  \/ UpstreamThrows

Spec == Init /\ [][Next]_vars

LiveNext ==
  \/ FormDataRejects
  \/ Validate
  \/ CallUpstream
  \/ UpstreamReturnsLive
  \/ UpstreamThrows

\* the event loop runs every continuation that is ready, and the upstream
\* call settles (it resolves or rejects)
LiveSpec == Init /\ [][LiveNext]_vars /\ WF_vars(LiveNext)

\* the JSON values an element of the reply's array can be
ItemLexemes ==
  {STR_A, STR_EMPTY, LIT_NULL, LIT_ZERO, LIT_SEVEN, LIT_FALSE, LIT_OBJ}

\* the JSON text of an array of the given element lexemes
RECURSIVE ArrayBody(_, _)
ArrayBody(ls, i) ==
  IF i > Len(ls) THEN <<>>
  ELSE (IF i > 1 THEN <<COMMA>> ELSE <<>>) \o <<ls[i]>> \o ArrayBody(ls, i + 1)

\* replies that are a JSON array of up to MaxItems elements of every kind
ItemReplies ==
  {Reply(<<LB>> \o ArrayBody(ls, 1) \o <<RB>>) : ls \in UNION {[1..n -> ItemLexemes] : n \in 0..MaxItems}}

ItemsNext ==
  \/ FormDataRejects
  \/ Validate
  \/ CallUpstream
  \/ UpstreamReturnsFrom(ItemReplies)
  \/ UpstreamThrows

\* one request whose upstream reply is a JSON array
ItemsSpec == Init /\ [][ItemsNext]_vars

TypeOK ==
  /\ pc \in {"start", "encode", "awaiting", "done"}
  /\ upstreamCalls \in Nat
  /\ response.status \in {0, 200, 400, 500}

\* ============================================================ GET /api/docs
\* (src/src/app/api/docs/route.ts)  File names and paths are sequences of
\* segments; error texts are sequences of strings and segments.

\* the ask handler is not running
NoRequest == [bodyOk |-> FALSE, file |-> Absent, questions |-> Absent, submitted |-> NoArray]

AskIdle ==
  /\ request = NoRequest
  /\ pc = "idle"
  /\ questions = <<>>
  /\ upstreamCalls = 0
  /\ upstreamMime = ""
  /\ reply = NoReply
  /\ raised = <<>>
  /\ response = NoResponse

askVars == <<request, pc, questions, upstreamCalls, upstreamMime, reply, raised, response>>

\* const allowedFiles = [...]
AllowedFiles ==
  {<<"API_DOCUMENTATION", ".md">>, <<"openapi", ".yaml">>, <<"test-api", ".js">>,
   <<"README", ".md">>, <<"src", "/", "types", "/", "api", ".ts">>}

\* names outside the list: traversal, extra segments around a listed name,
\* another spelling, an absolute path
OtherFiles ==
  {<<"..", "/", "README", ".md">>, <<"docs", "/", "README", ".md">>,
   <<"README", ".md", "/", "..", "/", ".env">>, <<"readme", ".md">>,
   <<"/", "etc", "/", "passwd">>, <<".env">>}

\* searchParams.get('file'): null when the parameter is not given
NoParam == [present |-> FALSE, name |-> <<>>]
Param(n) == [present |-> TRUE, name |-> n]

DocsParams == {NoParam, Param(<<>>)} \cup {Param(n) : n \in AllowedFiles \cup OtherFiles}

\* process.cwd()
Cwds == {<<"/", "app">>, <<"/", "srv", "/", "www">>}

\* path.join(process.cwd(), file), for a name without '.' or '..' segments
PathJoin(cwd, name) == cwd \o <<"/">> \o name

\* a file is present, present but not readable, or absent
FileStates == {"present", "unreadable", "absent"}

FileSystems(cwd) == [{PathJoin(cwd, n) : n \in AllowedFiles} -> FileStates]

FileState(fs, path) == IF path \in DOMAIN fs THEN fs[path] ELSE "absent"

\* variant: existsSync is not consulted
ExistsAlways(state) == TRUE

\* fs.existsSync(filePath)
Exists(state) == state # "absent"

\* fs.readFileSync(filePath, 'utf-8') returns the content or throws
Readable(state) == state = "present"

Content(path) == <<"content of ">> \o path

\* variant: a name that ends with a listed name is let through
AllowedBySuffix(name) ==
  \E a \in AllowedFiles :
    Len(a) <= Len(name) /\ SubSeq(name, Len(name) - Len(a) + 1, Len(name)) = a

\* allowedFiles.includes(file)
Allowed(name) == name \in AllowedFiles

\* file.endsWith(ext)
EndsWith(name, ext) == name # <<>> /\ name[Len(name)] = ext

ContentType(name) ==
  IF EndsWith(name, ".md") THEN "text/markdown"
  ELSE IF EndsWith(name, ".yaml") \/ EndsWith(name, ".yml") THEN "application/x-yaml"
  ELSE IF EndsWith(name, ".js") THEN "application/javascript"
  ELSE IF EndsWith(name, ".ts") THEN "application/typescript"
  ELSE "text/plain"

DocsNoResponse == [status |-> 0, kind |-> "none", body |-> <<>>, contentType |-> ""]

\* NextResponse.json({error}, {status})
DocsError(status, text) ==
  [status |-> status, kind |-> "error", body |-> text, contentType |-> "application/json"]

\* new NextResponse(content, {status: 200, headers})
DocsContent(content, type) ==
  [status |-> 200, kind |-> "content", body |-> content, contentType |-> type]

DocsInit ==
  /\ AskIdle
  /\ conc = ConcIdle
  /\ page = PageIdle
  /\ runner = RunnerIdle
  /\ \E c \in Cwds : \E f \in FileSystems(c) : \E p \in DocsParams :
       docs = [pc |-> "start", cwd |-> c, param |-> p, fs |-> f, ops |-> <<>>,
               changed |-> FALSE, response |-> DocsNoResponse]

DocsRespond(r, ops) == docs' = [docs EXCEPT !.response = r, !.ops = ops, !.pc = "done"]

DocsPath == PathJoin(docs.cwd, docs.param.name)

\* the handler up to and including fs.existsSync
DocsCheck ==
  /\ docs.pc = "start"
  /\ IF ~docs.param.present \/ docs.param.name = <<>> THEN
       DocsRespond(DocsError(400, <<"File parameter is required">>), docs.ops)
     ELSE IF ~Allowed(docs.param.name) THEN
       DocsRespond(DocsError(404, <<"File not found or not allowed">>), docs.ops)
     ELSE
       LET state == FileState(docs.fs, DocsPath)
           ops == Append(docs.ops, [op |-> "existsSync", path |-> DocsPath, state |-> state]) IN
       IF ~Exists(state)
         THEN DocsRespond(DocsError(404, <<"File not found: ">> \o DocsPath), ops)
         ELSE docs' = [docs EXCEPT !.ops = ops, !.pc = "checked"]
  /\ UNCHANGED <<askVars, conc, page, runner>>

\* another process removes, restores or locks the file between the
\* existence check and the read
DocsFileChanges ==
  /\ docs.pc = "checked"
  /\ ~docs.changed
  /\ \E st \in FileStates \ {FileState(docs.fs, DocsPath)} :
       docs' = [docs EXCEPT !.fs = [docs.fs EXCEPT ![DocsPath] = st], !.changed = TRUE]
  /\ UNCHANGED <<askVars, conc, page, runner>>

\* fs.readFileSync and the 200 response, or the catch block
DocsRead ==
  /\ docs.pc = "checked"
  /\ LET state == FileState(docs.fs, DocsPath)
         ops == Append(docs.ops, [op |-> "readFileSync", path |-> DocsPath, state |-> state]) IN
     IF Readable(state)
       THEN DocsRespond(DocsContent(Content(DocsPath), ContentType(docs.param.name)), ops)
       ELSE DocsRespond(DocsError(500, <<"Internal server error">>), ops)
  /\ UNCHANGED <<askVars, conc, page, runner>>

DocsNext ==
  \/ DocsCheck
  \/ DocsFileChanges
  \/ DocsRead

DocsSpec == DocsInit /\ [][DocsNext]_vars

\* ===================================== POST /api/ask, concurrent requests
\* Every request runs its own activation of POST; the activations interleave
\* at the awaits.  The variables of an activation that live across an await
\* (questions) are kept in its slot; the logger is the one object of the
\* module that all activations write to.

ConcIds == 1..MaxConcurrent

PngFile == FileField("image/png")

ConcRequest(file, q) ==
  [bodyOk |-> TRUE, file |-> file, questions |-> TextField(JSONStringify(q)), submitted |-> q]

ConcRequests ==
  {ConcRequest(PngFile, <<Str(<<"a">>)>>),
   ConcRequest(PngFile, <<Str(<<"b">>), Str(<<"a">>)>>),
   ConcRequest(TextField(<<WORD>>), <<Str(<<"a">>)>>),
   [bodyOk |-> TRUE, file |-> PngFile, questions |-> TextField(<<WORD>>), submitted |-> NoArray],
   NoRequest}

ConcReplies == {NoReply, Reply(<<LB, STR_A, RB>>), Reply(<<WORD, NL, WORD>>), Reply(<<LB, WORD, RB>>)}

\* how the upstream call of a request ended
NoOutcome == [kind |-> "none", reply |-> NoReply, exc |-> ErrorOf("")]
Resolved(r) == [kind |-> "reply", reply |-> r, exc |-> ErrorOf("")]
Rejected(e) == [kind |-> "throw", reply |-> NoReply, exc |-> e]

\* variant: the handler's variables are declared at module level
SlotShared(id) == 1

\* the activation record of request id
Slot(id) == id

ConcInit ==
  /\ AskIdle
  /\ docs = DocsIdle
  /\ page = PageIdle
  /\ runner = RunnerIdle
  /\ \E rq \in [ConcIds -> ConcRequests] :
       conc = [pc |-> "run",
               req |-> rq,
               cpc |-> [i \in ConcIds |-> "start"],
               locals |-> [i \in ConcIds |-> <<>>],
               calls |-> [i \in ConcIds |-> 0],
               out |-> [i \in ConcIds |-> NoOutcome],
               resp |-> [i \in ConcIds |-> NoResponse],
               logged |-> 0]

\* number of lines logger writes for a reply: the reply, the results, and a
\* warning when the matched span does not parse
ReplyLogLines(text) == IF ParseThrows(text) THEN 3 ELSE 2

ConcFormDataRejects(id) ==
  /\ conc.cpc[id] = "start"
  /\ ~conc.req[id].bodyOk
  /\ conc' = [conc EXCEPT !.cpc[id] = "done",
                          !.resp[id] = CatchAll(FormDataError),
                          !.logged = @ + 1]
  /\ UNCHANGED <<askVars, docs, page, runner>>

ConcValidate(id) ==
  /\ conc.cpc[id] = "start"
  /\ conc.req[id].bodyOk
  /\ LET req == conc.req[id] IN
     IF MissingInput(req) THEN
       conc' = [conc EXCEPT !.cpc[id] = "done",
                            !.resp[id] = ErrorResponse(400, "Missing file or questions"),
                            !.logged = @ + 1]
     ELSE IF ~QuestionsValid(req.questions) THEN
       conc' = [conc EXCEPT !.cpc[id] = "done",
                            !.resp[id] = ErrorResponse(400, "Invalid JSON format for questions parameter"),
                            !.logged = @ + 1]
     ELSE IF req.file.kind # "file" THEN
       conc' = [conc EXCEPT !.cpc[id] = "done",
                            !.locals[Slot(id)] = ParsedQuestions(req.questions).val.items,
                            !.resp[id] = CatchAll(ArrayBufferError),
                            !.logged = @ + 1]
     ELSE
       conc' = [conc EXCEPT !.cpc[id] = "encode",
                            !.locals[Slot(id)] = ParsedQuestions(req.questions).val.items]
  /\ UNCHANGED <<askVars, docs, page, runner>>

ConcCallUpstream(id) ==
  /\ conc.cpc[id] = "encode"
  /\ conc' = [conc EXCEPT !.cpc[id] = "awaiting", !.calls[id] = @ + 1]
  /\ UNCHANGED <<askVars, docs, page, runner>>

ConcUpstreamReturns(id) ==
  /\ conc.cpc[id] = "awaiting"
  /\ \E r \in ConcReplies :
       conc' = [conc EXCEPT !.cpc[id] = "done",
                            !.out[id] = Resolved(r),
                            !.resp[id] = AnswersResponse(conc.locals[Slot(id)], ResponseText(r)),
                            !.logged = @ + ReplyLogLines(ResponseText(r))]
  /\ UNCHANGED <<askVars, docs, page, runner>>

ConcUpstreamThrows(id) ==
  /\ conc.cpc[id] = "awaiting"
  /\ \E e \in UpstreamErrors :
       conc' = [conc EXCEPT !.cpc[id] = "done",
                            !.out[id] = Rejected(e),
                            !.resp[id] = CatchAll(e),
                            !.logged = @ + 1]
  /\ UNCHANGED <<askVars, docs, page, runner>>

ConcNext ==
  \/ \E id \in ConcIds : ConcFormDataRejects(id)
  \/ \E id \in ConcIds : ConcValidate(id)
  \/ \E id \in ConcIds : ConcCallUpstream(id)
  \/ \E id \in ConcIds : ConcUpstreamReturns(id)
  \/ \E id \in ConcIds : ConcUpstreamThrows(id)

ConcSpec == ConcInit /\ [][ConcNext]_vars

\* the response of a request handled alone, from its form fields and the
\* outcome of its upstream call
HandlerResponse(req, out) ==
  IF ~req.bodyOk THEN CatchAll(FormDataError)
  ELSE IF MissingInput(req) THEN ErrorResponse(400, "Missing file or questions")
  ELSE IF ~QuestionsValid(req.questions)
    THEN ErrorResponse(400, "Invalid JSON format for questions parameter")
  ELSE IF req.file.kind # "file" THEN CatchAll(ArrayBufferError)
  ELSE IF out.kind = "throw" THEN CatchAll(out.exc)
  ELSE AnswersResponse(ParsedQuestions(req.questions).val.items, ResponseText(out.reply))

\* ============================================================ the docs page
\* (DocsPage, src/src/app/api/ask/route.ts lines 181-309)  The page keeps
\* content, loading, error and activeDoc; every call of loadDocument is
\* an entry of loads, with the document it fetches and how far it got.

\* const documents = [...]: the ids
Documents == {"API_DOCUMENTATION.md", "openapi.yaml", "test-api.js"}

\* the text served for /<filename>
TextOf(filename) == <<"text of ", filename>>

\* new Error(`Failed to load ${filename}`)
LoadError(filename) == ErrorOf("Failed to load " \o filename)

\* what fetch() or response.text() rejects with
FetchErrors == {ErrorOf("Failed to fetch"), Thrown("aborted")}

\* err instanceof Error ? err.message : 'Failed to load document'
LoadMessage(e) == IF e.isError THEN e.message ELSE "Failed to load document"

\* the useState initial values, before the effect has run
PageInit ==
  /\ AskIdle
  /\ docs = DocsIdle
  /\ conc = ConcIdle
  /\ runner = RunnerIdle
  /\ page = [pc |-> "mounted", activeDoc |-> "API_DOCUMENTATION.md", content |-> <<>>,
             loading |-> TRUE, error |-> "", loads |-> <<>>]

\* loadDocument(filename) up to its first await: setLoading(true),
\* setError(''), fetch
StartLoad(p, filename) ==
  [p EXCEPT !.loading = TRUE,
            !.error = "",
            !.loads = Append(@, [doc |-> filename, pc |-> "fetching", outcome |-> "none"])]

\* the catch and finally blocks of load id: setError, setLoading(false)
CatchLoad(p, id, e) ==
  [p EXCEPT !.error = LoadMessage(e),
            !.loading = FALSE,
            !.loads[id].pc = "done",
            !.loads[id].outcome = "failed"]

\* the effect of the first render
PageMount ==
  /\ page.pc = "mounted"
  /\ page' = [StartLoad(page, page.activeDoc) EXCEPT !.pc = "shown"]
  /\ UNCHANGED <<askVars, docs, conc, runner>>

\* a click on another document: setActiveDoc, and the effect that the
\* change of activeDoc triggers (a click on the active one changes nothing)
PageSelect ==
  /\ page.pc = "shown"
  /\ Len(page.loads) < MaxLoads
  /\ \E doc \in Documents \ {page.activeDoc} :
       page' = StartLoad([page EXCEPT !.activeDoc = doc], doc)
  /\ UNCHANGED <<askVars, docs, conc, runner>>

\* a click on Retry, which is rendered while error is not ''
PageRetry ==
  /\ page.pc = "shown"
  /\ Len(page.loads) < MaxLoads
  /\ page.error # ""
  /\ page' = StartLoad(page, page.activeDoc)
  /\ UNCHANGED <<askVars, docs, conc, runner>>

\* fetch resolves: with response.ok the text is awaited, otherwise the
\* Error is thrown and caught
PageFetchResolves(id) ==
  /\ page.loads[id].pc = "fetching"
  /\ \E ok \in BOOLEAN :
       page' = IF ok THEN [page EXCEPT !.loads[id].pc = "reading"]
               ELSE CatchLoad(page, id, LoadError(page.loads[id].doc))
  /\ UNCHANGED <<askVars, docs, conc, runner>>

\* response.text() resolves: setContent(text), then setLoading(false)
PageTextResolves(id) ==
  /\ page.loads[id].pc = "reading"
  /\ page' = [page EXCEPT !.content = TextOf(page.loads[id].doc),
                          !.loading = FALSE,
                          !.loads[id].pc = "done",
                          !.loads[id].outcome = "ok"]
  /\ UNCHANGED <<askVars, docs, conc, runner>>

\* fetch() or response.text() rejects
PageLoadRejects(id) ==
  /\ page.loads[id].pc \in {"fetching", "reading"}
  /\ \E e \in FetchErrors : page' = CatchLoad(page, id, e)
  /\ UNCHANGED <<askVars, docs, conc, runner>>

PageNext ==
  \/ PageMount
  \/ PageSelect
  \/ PageRetry
  \/ \E id \in DOMAIN page.loads : PageFetchResolves(id)
  \/ \E id \in DOMAIN page.loads : PageTextResolves(id)
  \/ \E id \in DOMAIN page.loads : PageLoadRejects(id)

PageSpec == PageInit /\ [][PageNext]_vars

\* ===================================================== the testing utility
\* (src/test-api.js)  runAllTests runs the scenarios of TEST_SCENARIOS
\* against the server at API_CONFIG.baseUrl, whose responses are inputs.

\* a field that a record does not have
Undefined == -1

\* Object.values(TEST_SCENARIOS)
TEST_SCENARIOS ==
  <<[name |-> "Valid Request with Basic Questions", expectedStatus |-> 200,
     skipFile |-> FALSE, skipQuestions |-> FALSE],
    [name |-> "Detailed Request with Many Questions", expectedStatus |-> 200,
     skipFile |-> FALSE, skipQuestions |-> FALSE],
    [name |-> "Missing File Error", expectedStatus |-> 400,
     skipFile |-> TRUE, skipQuestions |-> FALSE],
    [name |-> "Missing Questions Error", expectedStatus |-> 400,
     skipFile |-> FALSE, skipQuestions |-> TRUE],
    [name |-> "Invalid Questions Format", expectedStatus |-> 400,
     skipFile |-> FALSE, skipQuestions |-> FALSE]>>

\* imagePath: a path, the empty string, or a value that is not a path
\* (fs.createReadStream throws a TypeError for it)
NotAPath == "[object Object]"
ImagePaths == {"test-booking.txt", "", NotAPath}

\* !options.skipFile && imagePath
AppendsFile(sc, imagePath) == ~sc.skipFile /\ imagePath # ""

\* what the server answers: a status and a body, which is {results: [...]}
\* with question-answer objects, {error}, a JSON body whose results are not
\* a list of objects, or no JSON at all
HttpResponses ==
  {[status |-> 200, body |-> "results"], [status |-> 200, body |-> "badResults"],
   [status |-> 400, body |-> "error"], [status |-> 500, body |-> "error"],
   [status |-> 500, body |-> "notJson"]}

\* the object makeApiRequest returns from its catch block
ApiFailure(message) == [status |-> 0, data |-> "null", error |-> message]

\* await fetch(...), await response.json() and the return, or the catch
MakeApiRequest(r) ==
  IF r.body = "notJson" THEN ApiFailure("invalid json response body")
  ELSE [status |-> r.status, data |-> r.body, error |-> "undefined"]

\* the testResult of runTestScenario
TestResult(sc, result) ==
  [scenario |-> sc.name, expectedStatus |-> sc.expectedStatus, actualStatus |-> result.status,
   success |-> result.status = sc.expectedStatus, response |-> result.data, error |-> result.error]

\* the record pushed by the catch block of runAllTests
ThrownResult(sc, message) ==
  [scenario |-> sc.name, expectedStatus |-> Undefined, actualStatus |-> Undefined,
   success |-> FALSE, response |-> "undefined", error |-> message]

\* result.data.results.forEach(qa => ... qa.question ...) throws a TypeError
LogThrows(result) == result.data = "badResults"

\* runTestScenario after makeApiRequest has returned, inside the try of
\* runAllTests
ScenarioRecord(sc, result) ==
  IF LogThrows(result) THEN ThrownResult(sc, "result.data.results.forEach is not a function")
  ELSE TestResult(sc, result)

RunnerInit ==
  /\ AskIdle
  /\ docs = DocsIdle
  /\ conc = ConcIdle
  /\ page = PageIdle
  /\ \E path \in ImagePaths :
       runner = [pc |-> "run", imagePath |-> path, next |-> 1, inflight |-> {},
                 sent |-> <<>>, results |-> <<>>,
                 received |-> [k \in DOMAIN TEST_SCENARIOS |-> 0], threw |-> {}]

\* variant: the scenarios are started without awaiting the previous one
ReadyNoAwait(r) == TRUE

\* `await runTestScenario(...)`: the loop goes on when the scenario it
\* started has settled
Ready(r) == r.inflight = {}

\* the next iteration of the for loop, up to the await of fetch; a throw of
\* fs.createReadStream reaches the catch block of runAllTests
RunnerStart ==
  /\ runner.pc = "run"
  /\ runner.next <= Len(TEST_SCENARIOS)
  /\ Ready(runner)
  /\ LET k == runner.next
         sc == TEST_SCENARIOS[k] IN
     IF AppendsFile(sc, runner.imagePath) /\ runner.imagePath = NotAPath THEN
       runner' = [runner EXCEPT !.next = k + 1,
                                !.results = Append(@, ThrownResult(sc, "The \"path\" argument must be of type string")),
                                !.threw = @ \cup {k}]
     ELSE
       runner' = [runner EXCEPT !.next = k + 1,
                                !.inflight = @ \cup {k},
                                !.sent = Append(@, [scenario |-> k,
                                                    file |-> AppendsFile(sc, runner.imagePath),
                                                    questions |-> ~sc.skipQuestions])]
  /\ UNCHANGED <<askVars, docs, conc, page>>

\* the response of scenario k arrives: makeApiRequest returns,
\* runTestScenario builds and logs the result, runAllTests pushes it
RunnerResponds(k) ==
  /\ k \in runner.inflight
  /\ \E r \in HttpResponses :
       LET result == MakeApiRequest(r) IN
       runner' = [runner EXCEPT !.inflight = @ \ {k},
                                !.results = Append(@, ScenarioRecord(TEST_SCENARIOS[k], result)),
                                !.received[k] = r.status,
                                !.threw = IF LogThrows(result) THEN @ \cup {k} ELSE @]
  /\ UNCHANGED <<askVars, docs, conc, page>>

\* fetch rejects (no server, timeout, unreadable image file)
RunnerFetchRejects(k) ==
  /\ k \in runner.inflight
  /\ runner' = [runner EXCEPT !.inflight = @ \ {k},
                              !.results = Append(@, ScenarioRecord(TEST_SCENARIOS[k],
                                                                   ApiFailure("request failed")))]
  /\ UNCHANGED <<askVars, docs, conc, page>>

\* return results
RunnerReturns ==
  /\ runner.pc = "run"
  /\ runner.next > Len(TEST_SCENARIOS)
  /\ Ready(runner)
  /\ runner' = [runner EXCEPT !.pc = "returned"]
  /\ UNCHANGED <<askVars, docs, conc, page>>

RunnerNext ==
  \/ RunnerStart
  \/ \E k \in DOMAIN TEST_SCENARIOS : RunnerResponds(k)
  \/ \E k \in DOMAIN TEST_SCENARIOS : RunnerFetchRejects(k)
  \/ RunnerReturns

RunnerSpec == RunnerInit /\ [][RunnerNext]_vars

\* ================================================================= claims
Done == pc = "done"

Ok200 == Done /\ response.status = 200

RaisedAt(place) == \E i \in DOMAIN raised : raised[i].at = place

ReplyText == ResponseText(reply)

AnswerAt(i) == response.results[i].answer

\* there is a '[' with a ']' somewhere after it
HasBracketSpan(text) ==
  \E i \in 1..Len(text) : \E j \in (i + 1)..Len(text) : text[i] = LB /\ text[j] = RB

\* the whole reply is the JSON text of an array
CleanJsonArray(text) == JSONParse(text).ok /\ JSONParse(text).val.k = "array"

\* C1: a 200 response has exactly one result per element of the submitted
\* questions array, whatever the upstream reply was.
C1_ResultCount ==
  Ok200 => request.submitted # NoArray /\ Len(response.results) = Len(request.submitted)

C1_Witness ==
  /\ Ok200
  /\ Len(request.submitted) = 1
  /\ reply = Reply(<<WORD, NL, WORD>>)

\* C2: in a 200 response results[i].question is the i-th submitted question,
\* for every index: same order, duplicates kept, nothing omitted.
C2_QuestionsEchoed ==
  Ok200 =>
    \A i \in DOMAIN request.submitted :
      i \in DOMAIN response.results /\ response.results[i].question = request.submitted[i]

C2_Witness ==
  /\ Ok200
  /\ request.submitted = <<Str(<<"b">>), Str(<<"a">>)>>
  /\ response.results[1].question = Str(<<"b">>)

\* C3: a multipart request without the file field or without the questions
\* field is answered 400 with an {error} body.
C3_MissingField400 ==
  (Done /\ request.bodyOk /\ (request.file.kind = "absent" \/ request.questions.kind = "absent"))
    => (response.status = 400 /\ response.kind = "error")

C3_Witness ==
  /\ Done
  /\ request.file.kind = "absent"
  /\ request.questions.kind = "text"
  /\ request.submitted # NoArray
  /\ response.status = 400

\* C4: with the file field present, a questions field that is not the JSON
\* text of an array is answered 400 with an {error} body.
C4_InvalidQuestions400 ==
  (Done /\ request.bodyOk /\ request.file.kind # "absent"
     /\ request.questions.kind # "absent" /\ request.submitted = NoArray)
    => (response.status = 400 /\ response.kind = "error")

C4_Witness ==
  /\ Done
  /\ request.file.kind = "file"
  /\ request.questions = TextField(<<LIT_OBJ>>)
  /\ response.status = 400

\* C5: when the upstream call throws, the response is 500 and its error is
\* the message of the thrown Error (the string form of any other thrown value).
C5_UpstreamFailure500 ==
  \A i \in DOMAIN raised :
    raised[i].at = "upstream" =>
      /\ Done
      /\ response.status = 500
      /\ response.kind = "error"
      /\ raised[i].exc.isError => response.error = raised[i].exc.message
      /\ ~raised[i].exc.isError => response.error = raised[i].exc.str

C5_Witness ==
  /\ Done
  /\ raised = <<[at |-> "upstream", exc |-> ErrorOf("fetch failed")]>>
  /\ response.error = "fetch failed"

\* C6: the upstream model is called at most once per request, also after
\* a failure and after a reply that does not parse or is too short.
C6_AtMostOneCall == upstreamCalls <= 1

C6_Witness ==
  /\ Done
  /\ upstreamCalls = 1
  /\ RaisedAt("upstream")

\* C7 (as claimed): a rejection caused by the client's input is a 400, and
\* 500 only answers upstream failures.
C7_ClientErrors400 ==
  (Done /\ response.kind = "error" /\ ~RaisedAt("upstream")) => response.status = 400

\* C8 (as claimed): a request in whose handling an exception was raised is
\* answered 500.
C8_AnyException500 ==
  (Done /\ raised # <<>>) => response.status = 500

\* C8 (amended): an exception of req.formData(), file.arrayBuffer() or the
\* upstream call gives 500 with its message; an exception raised while
\* parsing the questions gives 400 and one raised while parsing the reply 200.
C8_ExceptionStatus ==
  Done =>
    \A i \in DOMAIN raised :
      /\ raised[i].at \in {"formData", "arrayBuffer", "upstream"} =>
           /\ response.status = 500
           /\ response.kind = "error"
           /\ raised[i].exc.isError => response.error = raised[i].exc.message
      /\ raised[i].at = "questions" => response.status = 400
      /\ raised[i].at = "answers" => response.status = 200

C8_Witness ==
  /\ Done
  /\ RaisedAt("answers")
  /\ response.status = 200
  /\ reply = Reply(<<LB, WORD, RB>>)

\* the i-th of the non-empty lines of the reply, '' beyond the last one
LineAnswer(text, i) ==
  IF i <= Len(NonBlankLines(text)) THEN Str(NonBlankLines(text)[i]) ELSE EmptyString

\* C9 (as claimed): for a reply that is not a clean JSON array the answers
\* are its non-empty lines, in order.
C9_NotCleanMeansLines ==
  (Ok200 /\ ~CleanJsonArray(ReplyText)) =>
    \A i \in DOMAIN response.results : AnswerAt(i) = LineAnswer(ReplyText, i)

\* C9 (amended): for a reply without any '[' ... ']' span the answers are
\* its non-empty lines, in order.
C9_NoSpanMeansLines ==
  (Ok200 /\ ~HasBracketSpan(ReplyText)) =>
    \A i \in DOMAIN response.results : AnswerAt(i) = LineAnswer(ReplyText, i)

C9_Witness ==
  /\ Ok200
  /\ reply = Reply(<<WORD, NL, NL, STR_A>>)
  /\ Len(response.results) = 2
  /\ AnswerAt(2) = Str(<<STR_A>>)

\* C10: with k parsed items and n questions, answer i comes from parsed
\* item i for i < k and is '' for i >= k; items beyond n are dropped.
C10_PadTruncateByIndex ==
  Ok200 =>
    LET items == ExtractAnswers(ReplyText) IN
    \A i \in DOMAIN response.results :
      IF i <= Len(items)
        THEN AnswerAt(i) = items[i] \/ (AnswerAt(i) = EmptyString /\ ~Truthy(items[i]))
        ELSE AnswerAt(i) = EmptyString

C10_Witness ==
  /\ Ok200
  /\ Len(response.results) = 1
  /\ reply = Reply(<<STR_A, NL, WORD>>)
  /\ AnswerAt(1) = Str(<<STR_A>>)

\* C11 (as claimed): every answer of a 200 response is a string, also when
\* the model's JSON array holds elements that are not strings.
C11_AnswersAreStrings ==
  Ok200 => \A i \in DOMAIN response.results : AnswerAt(i).k = "string"

\* C12: every response has status 200, 400 or 500; its body is {results}
\* exactly when the status is 200 and {error} exactly when it is 400 or 500.
C12_StatusAndShape ==
  Done =>
    /\ response.status \in {200, 400, 500}
    /\ response.kind \in {"results", "error"}
    /\ response.kind = "results" <=> response.status = 200
    /\ response.kind = "error" <=> response.status \in {400, 500}

C12_Witness ==
  /\ Done
  /\ RaisedAt("questions")
  /\ response.status = 400
  /\ response.kind = "error"

\* C13: every response, on each exit path, carries the header
\* Access-Control-Allow-Origin: *.
C13_CorsOnEveryResponse == Done => response.allowOrigin = "*"

C13_Witness ==
  /\ Done
  /\ RaisedAt("arrayBuffer")
  /\ response.status = 500
  /\ response.allowOrigin = "*"

\* the image formats the documentation lists as supported
SupportedMimes == {"image/png", "image/jpeg", "image/gif", "image/webp"}

\* C16 (as claimed): an uploaded file of an unsupported format is rejected
\* with 400 and never forwarded to the upstream model.
C16_UnsupportedFormat400 ==
  (Done /\ request.bodyOk /\ request.file.kind = "file"
     /\ request.file.type \notin SupportedMimes \cup {""})
    => (response.status = 400 /\ upstreamCalls = 0)

\* C19: every request eventually gets its response, and the response, once
\* given, is the only one: it never changes afterwards.
C19_EventuallyOneResponse ==
  /\ <>Done
  /\ [][pc = "done" => (pc' = "done" /\ response' = response)]_vars

\* a response whose answers were padded: fewer parsed items than questions
C19_Witness ==
  /\ Ok200
  /\ Len(ExtractAnswers(ReplyText)) < Len(response.results)
  /\ Len(response.results) = MaxQuestions

\* C20: the upstream model is called only after both validation checks have
\* passed, a reply is parsed only after the call, and a request answered
\* 400 has caused no upstream call.
C20_ValidateBeforeCall ==
  /\ response.status = 400 => upstreamCalls = 0
  /\ upstreamCalls > 0 =>
       /\ request.bodyOk
       /\ request.file.kind # "absent"
       /\ request.questions.kind = "text"
       /\ request.submitted # NoArray
  /\ response.kind = "results" => upstreamCalls = 1

C20_Witness ==
  /\ Done
  /\ request.file.kind = "file"
  /\ request.questions = TextField(<<WORD>>)
  /\ response.status = 400
  /\ upstreamCalls = 0

DocsDone == docs.pc = "done"

\* C14: GET /api/docs checks or reads a file only for a `file` value of the
\* allow-list, and only that file below the working directory; every other
\* value that is given is answered 404 without any file access.
C14_FsOnlyForAllowed ==
  /\ \A i \in DOMAIN docs.ops :
       /\ docs.param.present
       /\ docs.param.name \in AllowedFiles
       /\ docs.ops[i].path = docs.cwd \o <<"/">> \o docs.param.name
  /\ (DocsDone /\ docs.param.present /\ docs.param.name # <<>>
        /\ docs.param.name \notin AllowedFiles)
       => (docs.response.status = 404 /\ docs.ops = <<>>)

C14_Witness ==
  /\ DocsDone
  /\ docs.param = Param(<<"README", ".md", "/", "..", "/", ".env">>)
  /\ docs.response.status = 404
  /\ docs.ops = <<>>

\* C15 (as claimed): GET /api/docs answers 200, 400 or 404 and nothing
\* else, also when the file changes between the check and the read.
C15_OnlyThreeStatuses == DocsDone => docs.response.status \in {200, 400, 404}

\* C15 (amended): GET /api/docs answers 200 with the raw content, 400 when
\* no file parameter is given, 404 when the name is not allowed or the file
\* is absent at the existence check, and 500 when the file that passed the
\* check cannot be read.
C15_DocsStatuses ==
  DocsDone =>
    LET given == docs.param.present /\ docs.param.name # <<>>
        listed == given /\ docs.param.name \in AllowedFiles
        checkedAbsent == listed /\ docs.ops[1].state = "absent"
        readOk == listed /\ ~checkedAbsent /\ docs.ops[2].state = "present" IN
    /\ docs.response.status \in {200, 400, 404, 500}
    /\ docs.response.status = 400 <=> ~given
    /\ docs.response.status = 404 <=> (given /\ (~listed \/ checkedAbsent))
    /\ docs.response.status = 200 <=> readOk
    /\ docs.response.status = 500 <=> (listed /\ ~checkedAbsent /\ ~readOk)
    /\ docs.response.status = 200 =>
         docs.response.body = <<"content of ">> \o docs.cwd \o <<"/">> \o docs.param.name

C15_Witness ==
  /\ DocsDone
  /\ docs.changed
  /\ docs.response.status = 500
  /\ Len(docs.ops) = 2
  /\ docs.ops[1].state = "present"
  /\ docs.ops[2].state = "absent"

ConcDone(id) == conc.cpc[id] = "done"

\* C17 (as claimed): two requests with the same form fields whose upstream
\* calls both fail get the same error text, whatever the internal failure.
C17_ErrorIndependentOfInternals ==
  \A i, j \in ConcIds :
    (/\ ConcDone(i) /\ ConcDone(j)
     /\ conc.req[i] = conc.req[j]
     /\ conc.out[i].kind = "throw" /\ conc.out[j].kind = "throw")
      => conc.resp[i].error = conc.resp[j].error

\* C18: in every interleaving of concurrent requests each response is the
\* one the request would get alone: it is a function of the request's own
\* form fields and of the outcome of its own upstream call.
C18_ResponseAsIfAlone ==
  \A i \in ConcIds :
    /\ ConcDone(i) => conc.resp[i] = HandlerResponse(conc.req[i], conc.out[i])
    /\ ~ConcDone(i) => conc.resp[i] = NoResponse
    /\ conc.calls[i] <= 1

\* request 1 validated first, request 2 (other questions) validated before
\* request 1's reply arrived, and both were answered
C18_Witness ==
  /\ ConcDone(1) /\ ConcDone(2)
  /\ conc.req[1].submitted = <<Str(<<"a">>)>>
  /\ conc.req[2].submitted = <<Str(<<"b">>), Str(<<"a">>)>>
  /\ conc.req[1].file = PngFile /\ conc.req[2].file = PngFile
  /\ conc.out[1] = Resolved(Reply(<<WORD, NL, WORD>>))
  /\ conc.out[2] = Resolved(Reply(<<LB, STR_A, RB>>))
  /\ Len(conc.resp[1].results) = 1
  /\ Len(conc.resp[2].results) = 2

\* the spans <<i, j>> of a text that are the JSON text of an array and lie
\* in no larger such span
ArraySpans(text) ==
  {p \in (1..Len(text)) \X (1..Len(text)) :
     p[1] < p[2] /\ CleanJsonArray(SubSeq(text, p[1], p[2]))}

EmbeddedArrays(text) ==
  {p \in ArraySpans(text) :
     \A q \in ArraySpans(text) : (q[1] <= p[1] /\ p[2] <= q[2]) => q = p}

\* C21 (as claimed): when the reply is one JSON array with free text before
\* or after it, the answers are the elements of that array, also when the
\* free text holds '[' or ']'.
C21_ArrayInsideText ==
  Ok200 =>
    \A p \in EmbeddedArrays(ReplyText) :
      (EmbeddedArrays(ReplyText) = {p} /\ (p[1] > 1 \/ p[2] < Len(ReplyText))) =>
        LET items == JSONParse(SubSeq(ReplyText, p[1], p[2])).val.items IN
        \A i \in DOMAIN response.results :
          AnswerAt(i) = IF i <= Len(items) /\ Truthy(items[i]) THEN items[i] ELSE EmptyString

\* generateContent resolved and the handler answered
Replied == Done /\ upstreamCalls = 1 /\ ~RaisedAt("upstream")

\* the text from the first '[' of a text to its last ']'
OuterSpan(text) ==
  LET first == CHOOSE i \in 1..Len(text) : text[i] = LB /\ \A k \in 1..(i - 1) : text[k] # LB
      last == CHOOSE j \in 1..Len(text) : text[j] = RB /\ \A k \in (j + 1)..Len(text) : text[k] # RB
  IN SubSeq(text, first, last)

\* C22: the answers come from the JSON array when the '[...]' span parses,
\* from the non-empty lines exactly when the reply has no '[...]' span, and
\* are the whole reply as first answer ('' after it) exactly when a span is
\* found that does not parse; that last case is still answered 200.
C22_StrategyOrder ==
  Replied =>
    LET span == HasBracketSpan(ReplyText)
        parsed == JSONParse(OuterSpan(ReplyText)) IN
    /\ response.status = 200
    /\ RaisedAt("answers") <=> (span /\ ~parsed.ok)
    /\ ~span => \A i \in DOMAIN response.results : AnswerAt(i) = LineAnswer(ReplyText, i)
    /\ (span /\ ~parsed.ok) =>
         \A i \in DOMAIN response.results :
           AnswerAt(i) = IF i = 1 THEN Str(ReplyText) ELSE EmptyString
    /\ (span /\ parsed.ok) =>
         \A i \in DOMAIN response.results :
           AnswerAt(i) = IF i <= Len(parsed.val.items) /\ Truthy(parsed.val.items[i])
                           THEN parsed.val.items[i] ELSE EmptyString

\* a span over two lines that does not parse: the reply is not split
C22_Witness ==
  /\ Replied
  /\ reply = Reply(<<LB, WORD, NL, RB>>)
  /\ RaisedAt("answers")
  /\ Len(response.results) = 2
  /\ AnswerAt(1) = Str(<<LB, WORD, NL, RB>>)
  /\ AnswerAt(2) = EmptyString

\* the reply has no text, or only spaces and line ends
BlankReply == \A i \in 1..Len(ReplyText) : ReplyText[i] \in {SP, NL}

\* C23: a reply without text (undefined, null, '') or of blank lines only
\* is answered 200 with one entry per question and every answer ''.
C23_BlankReplyEmptyAnswers ==
  (Replied /\ BlankReply) =>
    /\ response.status = 200
    /\ response.kind = "results"
    /\ Len(response.results) = Len(request.submitted)
    /\ \A i \in DOMAIN response.results : AnswerAt(i) = EmptyString

C23_Witness ==
  /\ Replied
  /\ reply = Reply(<<SP, NL, SP>>)
  /\ response.status = 200
  /\ Len(response.results) = 2
  /\ AnswerAt(1) = EmptyString

\* the values `!v` is true for
FalsyItems == {Null, Bool("false"), Num("0"), Str(<<>>)}

C25_EmptyQuestionsArray ==
  (Done /\ request.bodyOk /\ request.file.kind = "file" /\ request.questions = TextField(<<LB, RB>>))
    =>
    /\ response.status # 400
    /\ upstreamCalls = 1
    /\ ~RaisedAt("upstream") =>
         /\ response.status = 200
         /\ response.kind = "results"
         /\ response.results = <<>>

C25_Witness ==
  /\ Replied
  /\ request.questions = TextField(<<LB, RB>>)
  /\ reply = Reply(<<LB, STR_A, RB>>)
  /\ response.status = 200
  /\ response.results = <<>>

\* the loads of the page that have not completed
InFlight == {id \in DOMAIN page.loads : page.loads[id].pc # "done"}

\* C26 (as claimed): the loading indicator is shown while a fetch is in
\* flight, and once none is, an error is shown only if the load started
\* last failed, and otherwise the content is the text fetched for the
\* active document, whatever the order in which the fetches completed.
C26_ViewMatchesActiveDoc ==
  (page.pc = "shown") =>
    LET last == page.loads[Len(page.loads)] IN
    /\ InFlight # {} => page.loading
    /\ InFlight = {} =>
         /\ page.error # "" => last.outcome = "failed"
         /\ page.error = "" => page.content = TextOf(page.activeDoc)

\* the scenarios run one at a time in declaration order, a request starts
\* after the one before it has completed, and there is one record per
\* scenario, in that order, when runAllTests returns
RunsInOrder ==
  /\ Cardinality(runner.inflight) <= 1
  /\ runner.inflight # {} =>
       (runner.inflight = {runner.next - 1} /\ Len(runner.results) = runner.next - 2)
  /\ runner.inflight = {} => Len(runner.results) = runner.next - 1
  /\ \A i \in DOMAIN runner.sent :
       \A j \in DOMAIN runner.sent : i < j => runner.sent[i].scenario < runner.sent[j].scenario
  /\ \A k \in DOMAIN runner.results : runner.results[k].scenario = TEST_SCENARIOS[k].name
  /\ runner.pc = "returned" => Len(runner.results) = Len(TEST_SCENARIOS)

====
